---- MODULE Spec2Model ----
(***************************************************************************)
(* Model of diffraction/cif.py: the CIF syntax validator (CIFValidator),   *)
(* and the parser (CIFParser, DataBlock) that runs it before extracting    *)
(* data items.  Text is a sequence of one-character strings; every regular *)
(* expression of the module is an operator that matches as Python's re     *)
(* does on such a sequence.                                                *)
(***************************************************************************)
EXTENDS Integers, Sequences, FiniteSets, TLC

(***************************************************************************)
(* Characters and character classes of Python's re.                        *)
(***************************************************************************)
LowerCase == <<"a", "b", "c", "d", "e", "f", "g", "h", "i", "j", "k", "l", "m",
               "n", "o", "p", "q", "r", "s", "t", "u", "v", "w", "x", "y", "z">>

UpperCase == <<"A", "B", "C", "D", "E", "F", "G", "H", "I", "J", "K", "L", "M",
               "N", "O", "P", "Q", "R", "S", "T", "U", "V", "W", "X", "Y", "Z">>

Digits == {"0", "1", "2", "3", "4", "5", "6", "7", "8", "9"}

\* \s
IsSpace(c) == c \in {" ", "\t", "\n", "\r", "\f"}

\* \w
IsWord(c) ==
    \/ c \in Digits
    \/ c = "_"
    \/ \E i \in 1..Len(LowerCase) : c = LowerCase[i] \/ c = UpperCase[i]

\* re.IGNORECASE folds both sides to one case
ToLower(c) ==
    IF \E i \in 1..Len(UpperCase) : c = UpperCase[i]
    THEN LowerCase[CHOOSE i \in 1..Len(UpperCase) : c = UpperCase[i]]
    ELSE c

\* the literal `word` (lower case) stands at position i of s, case ignored
LiteralAt(s, i, word) ==
    /\ i + Len(word) - 1 <= Len(s)
    /\ \A k \in 1..Len(word) : ToLower(s[i + k - 1]) = word[k]

\* a greedy \s* from position i ends at the first non-space (or past the end)
SkipSpace(s, i) ==
    CHOOSE j \in i..(Len(s) + 1) :
        /\ \A k \in i..(j - 1) : IsSpace(s[k])
        /\ j = Len(s) + 1 \/ ~IsSpace(s[j])

\* a greedy \S* from position i
SkipNonSpace(s, i) ==
    CHOOSE j \in i..(Len(s) + 1) :
        /\ \A k \in i..(j - 1) : ~IsSpace(s[k])
        /\ j = Len(s) + 1 \/ IsSpace(s[j])

\* a greedy \w* from position i
SkipWord(s, i) ==
    CHOOSE j \in i..(Len(s) + 1) :
        /\ \A k \in i..(j - 1) : IsWord(s[k])
        /\ j = Len(s) + 1 \/ ~IsWord(s[j])

\* a greedy [^\s'"]* from position i
SkipValueChars(s, i) ==
    CHOOSE j \in i..(Len(s) + 1) :
        /\ \A k \in i..(j - 1) : ~IsSpace(s[k]) /\ s[k] \notin {"'", "\""}
        /\ j = Len(s) + 1 \/ IsSpace(s[j]) \/ s[j] \in {"'", "\""}

\* str.split("\n")
RECURSIVE SplitLines(_)
SplitLines(s) ==
    IF \A k \in 1..Len(s) : s[k] # "\n"
    THEN <<s>>
    ELSE LET n == CHOOSE k \in 1..Len(s) :
                      s[k] = "\n" /\ \A m \in 1..(k - 1) : s[m] # "\n"
         IN  <<SubSeq(s, 1, n - 1)>> \o SplitLines(SubSeq(s, n + 1, Len(s)))

\* "\n".join(lines)
RECURSIVE JoinLines(_)
JoinLines(ls) ==
    IF Len(ls) = 0 THEN <<>>
    ELSE IF Len(ls) = 1 THEN ls[1]
    ELSE ls[1] \o <<"\n">> \o JoinLines(Tail(ls))

\* str.lstrip()
LStrip(s) == SubSeq(s, SkipSpace(s, 1), Len(s))

\* str.startswith(";")
StartsWithSemicolon(s) == Len(s) >= 1 /\ s[1] = ";"

\* str.isspace()
IsSpaceString(s) == Len(s) >= 1 /\ \A k \in 1..Len(s) : IsSpace(s[k])

(***************************************************************************)
(* The regular expressions, each as its .match() on a string (anchored at  *)
(* the start, not at the end).                                             *)
(***************************************************************************)

\* COMMENT_OR_BLANK without its alternative \s+$
COMMENT_OR_BLANK_no_space(s) ==
    \/ LET j == SkipWord(s, 1) IN j <= Len(s) /\ s[j] = "#"
    \/ Len(s) = 0

\* COMMENT_OR_BLANK = "\w*#.*|\s+$|^$"
COMMENT_OR_BLANK(s) ==
    \/ LET j == SkipWord(s, 1) IN j <= Len(s) /\ s[j] = "#"
    \/ \E j \in 1..Len(s) :
          /\ \A k \in 1..j : IsSpace(s[k])
          /\ j = Len(s) \/ (j = Len(s) - 1 /\ s[Len(s)] = "\n")
    \/ Len(s) = 0
    \/ s = <<"\n">>

\* DATA_BLOCK_HEADING = "(?:^|\n)(data_\S*)\s*", IGNORECASE
DATA_BLOCK_HEADING(s) ==
    \/ LiteralAt(s, 1, <<"d", "a", "t", "a", "_">>)
    \/ Len(s) >= 1 /\ s[1] = "\n" /\ LiteralAt(s, 2, <<"d", "a", "t", "a", "_">>)

\* LOOP = "(?:^|\n)loop_\s*", IGNORECASE
LOOP(s) ==
    \/ LiteralAt(s, 1, <<"l", "o", "o", "p", "_">>)
    \/ Len(s) >= 1 /\ s[1] = "\n" /\ LiteralAt(s, 2, <<"l", "o", "o", "p", "_">>)

\* DATA_NAME = "\s*_(\S+)": the position after the name when it matches at i, else 0
DataNameEnd(s, i) ==
    LET j == SkipSpace(s, i)
    IN  IF j + 1 <= Len(s) /\ s[j] = "_" /\ ~IsSpace(s[j + 1])
        THEN SkipNonSpace(s, j + 1)
        ELSE 0

DATA_NAME(s) == DataNameEnd(s, 1) # 0

\* the group (\S+) of DATA_NAME.match(s)
DataNameGroup(s) == SubSeq(s, SkipSpace(s, 1) + 1, DataNameEnd(s, 1) - 1)

\* the closing quote q of a quoted value opened at p: '[^']+' or "[^"]+"
ClosingQuote(s, p) ==
    IF \E q \in (p + 1)..Len(s) : s[q] = s[p]
    THEN CHOOSE q \in (p + 1)..Len(s) :
             s[q] = s[p] /\ \A m \in (p + 1)..(q - 1) : s[m] # s[p]
    ELSE 0

\* the group of DATA_VALUE, ('[^']+'|"[^"]+"|[^\s_#][^\s'"]*), tried at p:
\* the position after the value, else 0
ValueEnd(s, p) ==
    IF p > Len(s) THEN 0
    ELSE IF s[p] \in {"'", "\""} /\ ClosingQuote(s, p) >= p + 2
         THEN ClosingQuote(s, p) + 1
    ELSE IF ~IsSpace(s[p]) /\ s[p] \notin {"_", "#"}
         THEN SkipValueChars(s, p + 1)
    ELSE 0

\* DATA_VALUE = "\s*('[^']+'|\"[^\"]+\"|[^\s_#][^\s'\"]*)"
DATA_VALUE(s) == ValueEnd(s, SkipSpace(s, 1)) # 0

\* DATA_VALUE.findall(s) from position i: the groups of the successive
\* leftmost non-overlapping matches
RECURSIVE DataValueFindAll(_, _)
DataValueFindAll(s, i) ==
    LET p == SkipSpace(s, i)
        e == ValueEnd(s, p)
    IN  IF p > Len(s) THEN <<>>
        ELSE IF e # 0 THEN <<SubSeq(s, p, e - 1)>> \o DataValueFindAll(s, e)
        ELSE DataValueFindAll(s, p + 1)

\* TEXT_FIELD = "[^_][^;]+"
TEXT_FIELD(s) == Len(s) >= 2 /\ s[1] # "_" /\ s[2] # ";"

\* INLINE_DATA_ITEM = "(?:^|\n)\s*_(\S+)[^\S\n]+\s*(<DATA_VALUE group>)" tried
\* with the name pattern starting at i: the position after the value, else 0
InlineItemEnd(s, i) ==
    LET k == DataNameEnd(s, i)
        m == SkipSpace(s, k)
    IN  IF k # 0 /\ k <= Len(s) /\ IsSpace(s[k]) /\ s[k] # "\n"
        THEN ValueEnd(s, m)
        ELSE 0

INLINE_DATA_ITEM(s) ==
    \/ InlineItemEnd(s, 1) # 0
    \/ Len(s) >= 1 /\ s[1] = "\n" /\ InlineItemEnd(s, 2) # 0

(***************************************************************************)
(* The patterns as the parser uses them: searched through a whole text     *)
(* (findall, sub, split), where "." and the character classes run over     *)
(* line breaks as the pattern allows.                                      *)
(***************************************************************************)

\* "(?:^|\n)\s*_(\S+)", the opening of three patterns, tried at position i:
\* the name found, from its first character to the position after its last
\* (to = 0: no match)
LineStartName(t, i) ==
    LET s0 == IF i = 1 THEN 1
              ELSE IF i <= Len(t) /\ t[i] = "\n" THEN i + 1
              ELSE 0
    IN  IF s0 = 0 THEN [line |-> 0, from |-> 0, to |-> 0]
        ELSE [line |-> s0, from |-> SkipSpace(t, s0) + 1, to |-> DataNameEnd(t, s0)]

\* "(?:^|\n)<word>" tried at position i: the position of the word, else 0
LineStartWord(t, i, word) ==
    IF i = 1 /\ LiteralAt(t, 1, word) THEN 1
    ELSE IF i >= 1 /\ i <= Len(t) /\ t[i] = "\n" /\ LiteralAt(t, i + 1, word)
    THEN i + 1
    ELSE 0

NoMatch == [to |-> 0]

\* DATA_BLOCK_HEADING, "data_" found at h: the header (group 1) runs to e
HeadingMatch(t, i, h, e) ==
    IF h = 0 THEN NoMatch
    ELSE [to |-> SkipSpace(t, e), from |-> i, header |-> SubSeq(t, h, e - 1)]

\* LOOP, "loop_" found at h
LoopMatch(t, i, h) ==
    IF h = 0 THEN NoMatch ELSE [to |-> SkipSpace(t, h + 5), from |-> i]

\* DATA_NAME_START_LINE = "(?:^|\n)\s*_(\S+)", the name n found
DataNameStartLineMatch(t, i, n) ==
    IF n.to = 0 THEN NoMatch
    ELSE [to |-> n.to, from |-> i, name |-> SubSeq(t, n.from, n.to - 1)]

\* the first ";" at or after b that follows a line break: where the body
\* (?:.(?<!\n;))* of SEMICOLON_DATA_ITEM cannot go on (0: there is none)
FirstLineSemicolon(t, b) ==
    LET stops == { q \in b..Len(t) : t[q] = ";" /\ t[q - 1] = "\n" }
    IN  IF stops = {} THEN 0 ELSE CHOOSE q \in stops : \A r \in stops : q <= r

\* SEMICOLON_DATA_ITEM = "(?:^|\n)\s*_(\S+)\n;\n((?:.(?<!\n;))*)\n;", DOTALL:
\* the name n found and "\n;\n" after it, the body cannot pass q; the closing
\* "\n;" is found by giving back the line break before q
SemicolonItemMatch(t, i, n, q) ==
    IF q # 0 /\ q - 1 >= n.to + 3
    THEN [to |-> q + 1, from |-> i, name |-> SubSeq(t, n.from, n.to - 1),
          value |-> SubSeq(t, n.to + 3, q - 2)]
    ELSE NoMatch

\* "\n;\n" at k
OpensField(t, k) ==
    k # 0 /\ k + 2 <= Len(t) /\ t[k] = "\n" /\ t[k + 1] = ";" /\ t[k + 2] = "\n"

\* INLINE_DATA_ITEM, the name n found and the value running from v to e
InlineItemMatch(t, i, n, v, e) ==
    IF e = 0 THEN NoMatch
    ELSE [to |-> e, from |-> i, name |-> SubSeq(t, n.from, n.to - 1),
          value |-> SubSeq(t, v, e - 1)]

\* pattern.match tried at i, for the pattern of that name, n being what
\* LineStartName finds there
MatchWithName(pattern, t, i, n) ==
    CASE pattern = "SEMICOLON_DATA_ITEM" ->
             SemicolonItemMatch(t, i, n,
                 IF OpensField(t, n.to) THEN FirstLineSemicolon(t, n.to + 3) ELSE 0)
      [] pattern = "INLINE_DATA_ITEM" ->
             InlineItemMatch(t, i, n, SkipSpace(t, n.to),
                 IF n.to = 0 THEN 0 ELSE InlineItemEnd(t, n.line))
      [] pattern = "DATA_NAME_START_LINE" ->
             DataNameStartLineMatch(t, i, n)

MatchAt(pattern, t, i) ==
    CASE pattern = "DATA_BLOCK_HEADING" ->
             HeadingMatch(t, i, LineStartWord(t, i, <<"d", "a", "t", "a", "_">>),
                 SkipNonSpace(t, LineStartWord(t, i, <<"d", "a", "t", "a", "_">>) + 5))
      [] pattern = "LOOP" ->
             LoopMatch(t, i, LineStartWord(t, i, <<"l", "o", "o", "p", "_">>))
      [] OTHER -> MatchWithName(pattern, t, i, LineStartName(t, i))

\* the leftmost of the matches tried
LeftMost(tried) ==
    LET found == { i \in DOMAIN tried : tried[i].to # 0 }
    IN  IF found = {} THEN NoMatch
        ELSE tried[CHOOSE i \in found : \A j \in found : i <= j]

\* pattern.search(t, pos)
Search(pattern, t, pos) ==
    LeftMost([i \in pos..(Len(t) + 1) |-> MatchAt(pattern, t, i)])

\* pattern.finditer(t) from pos on: the successive non-overlapping matches
RECURSIVE FindIter(_, _, _)
RECURSIVE FindIterAfter(_, _, _)
FindIter(pattern, t, pos) == FindIterAfter(pattern, t, Search(pattern, t, pos))

FindIterAfter(pattern, t, m) ==
    IF m.to = 0 THEN <<>> ELSE <<m>> \o FindIter(pattern, t, m.to)

\* pattern.sub("", t), given the matches: what lies between them from pos on
RECURSIVE Sub(_, _, _)
Sub(t, matches, pos) ==
    IF matches = <<>> THEN SubSeq(t, pos, Len(t))
    ELSE SubSeq(t, pos, Head(matches).from - 1)
         \o Sub(t, Tail(matches), Head(matches).to)

\* pattern.split(t), given the matches: the text between them, each match's
\* group (DATA_BLOCK_HEADING has one, LOOP none) after the text before it
RECURSIVE Split(_, _, _)
Split(t, matches, pos) ==
    IF matches = <<>> THEN <<SubSeq(t, pos, Len(t))>>
    ELSE <<SubSeq(t, pos, Head(matches).from - 1)>>
         \o (IF "header" \in DOMAIN Head(matches) THEN <<Head(matches).header>>
             ELSE <<>>)
         \o Split(t, Tail(matches), Head(matches).to)

\* str(n) for n >= 0
DigitChars == <<"0", "1", "2", "3", "4", "5", "6", "7", "8", "9">>

RECURSIVE Decimal(_)
Decimal(n) ==
    IF n < 10 THEN <<DigitChars[n + 1]>>
    ELSE Decimal(n \div 10) \o <<DigitChars[(n % 10) + 1]>>

\* d.setdefault(key, value): the value a key has is kept
DictSet_keeping(d, key, kind, value) ==
    IF \E i \in 1..Len(d) : d[i].key = key
    THEN d
    ELSE Append(d, [key |-> key, kind |-> kind, value |-> value])

\* d[key] = value on a dict kept as its items in insertion order, each with
\* the type of its value
DictSet(d, key, kind, value) ==
    IF \E i \in 1..Len(d) : d[i].key = key
    THEN [d EXCEPT ![CHOOSE i \in 1..Len(d) : d[i].key = key] =
                       [key |-> key, kind |-> kind, value |-> value]]
    ELSE Append(d, [key |-> key, kind |-> kind, value |-> value])

(***************************************************************************)
(* The inputs.  Lines are drawn from a catalogue holding one short line of *)
(* every kind the patterns tell apart; raw_data is such lines joined by    *)
(* newlines.                                                               *)
(***************************************************************************)
BlankLine       == <<>>
CommentLine     == <<"#", "c">>
IndentedComment == <<" ", "#">>
WordHashLine    == <<"b", "#">>
LoneUnderscore  == <<"_">>
HeadingLine     == <<"d", "a", "t", "a", "_", "b">>
LoopLine        == <<"l", "o", "o", "p", "_">>
NameLine        == <<"_", "a">>
NameHashLine    == <<"_", "a", "#">>
InlineLine      == <<"_", "a", " ", "b">>
OneCharValue    == <<"b">>
TwoValues       == <<"b", " ", "c">>
IndentedValue   == <<" ", "b">>
QuotedValue     == <<"'", "b", " ", "c", "'">>
SemicolonLine   == <<";">>
SemicolonText   == <<";", "b">>
NameTrailingSpace == <<"_", "a", " ">>
LoopNamedItem   == <<"_", "l", "o", "o", "p", "_", "1", " ", "b">>

Catalogue ==
    { BlankLine, CommentLine, IndentedComment, WordHashLine, LoneUnderscore,
      HeadingLine, LoopLine, NameLine, NameHashLine, InlineLine, OneCharValue,
      TwoValues, IndentedValue, QuotedValue, SemicolonLine, SemicolonText }

\* lines that may stand inside a semicolon text field
FieldLines == { CommentLine, TwoValues, OneCharValue, SemicolonText, QuotedValue }

\* lines that may stand inside a loop
LoopLines ==
    { CommentLine, NameLine, NameTrailingSpace, OneCharValue, TwoValues,
      QuotedValue }

\* lines that may follow a loop: any of the catalogue, or an inline item
\* whose data name reads like the key of a loop
LoopTails == Catalogue \cup { LoopNamedItem }

MaxLines == 3
MaxField == 2
MaxLoop  == 3

SeqsUpTo(S, n) == UNION { [1..k -> S] : k \in 0..n }

\* every input of at most MaxLines catalogue lines
ShortInputs == SeqsUpTo(Catalogue, MaxLines)

\* with or without a data block heading in front
Headings == { <<>>, <<HeadingLine>> }

\* a semicolon data item opened, up to MaxField lines in the field, one line after
FieldInputs ==
    { heading \o <<NameLine, SemicolonLine>> \o body \o tail :
          heading \in Headings,
          body \in SeqsUpTo(FieldLines, MaxField),
          tail \in SeqsUpTo(Catalogue, 1) }

\* a loop of up to MaxLoop lines, one line after
LoopInputs ==
    { heading \o <<LoopLine>> \o body \o tail :
          heading \in Headings,
          body \in SeqsUpTo(LoopLines, MaxLoop),
          tail \in SeqsUpTo(LoopTails, 1) }

\* a loop straight after a loop: each with up to MaxNames declared names,
\* the first with or without a row, the second with one
MaxNames == 2

LoopRows == { OneCharValue, TwoValues }

LoopAfterLoopInputs ==
    { heading \o <<LoopLine>> \o names1 \o row1 \o <<LoopLine>> \o names2 \o <<row2>> :
          heading \in Headings,
          names1 \in SeqsUpTo({NameLine}, MaxNames),
          row1 \in SeqsUpTo(LoopRows, 1),
          names2 \in SeqsUpTo({NameLine}, MaxNames),
          row2 \in LoopRows }

\* a block of up to MaxItems items that all bear the data name a: inline
\* items and semicolon text fields, with two values of each kind
InlineOther == <<"_", "a", " ", "c">>

RepeatedItems ==
    { <<InlineLine>>, <<InlineOther>>,
      <<NameLine, SemicolonLine, TwoValues, SemicolonLine>>,
      <<NameLine, SemicolonLine, QuotedValue, SemicolonLine>> }

MaxItems == 3

RECURSIVE Flatten(_)
Flatten(chunks) ==
    IF chunks = <<>> THEN <<>> ELSE Head(chunks) \o Flatten(Tail(chunks))

RepeatedNameInputs ==
    { <<HeadingLine>> \o Flatten(items) : items \in SeqsUpTo(RepeatedItems, MaxItems) }

\* texts of white space alone, of up to MaxSpace characters
WhiteSpace == { " ", "\t", "\n", "\r", "\f" }

MaxSpace == 3

WhiteSpaceInputs == SeqsUpTo(WhiteSpace, MaxSpace)

RawInputs ==
    { JoinLines(ls) : ls \in ShortInputs \cup FieldInputs \cup LoopInputs
                                 \cup LoopAfterLoopInputs \cup RepeatedNameInputs }
        \cup WhiteSpaceInputs

(***************************************************************************)
(* State.                                                                  *)
(***************************************************************************)
VARIABLES
    raw_data,         \* the text handed to CIFValidator / read by CIFParser
    warned,           \* CIFValidator.__init__ issued "File is empty."
    lines,            \* the lines the generator self.lines runs over
    consumed,         \* how many of them the generator has yielded
    current_line,     \* CIFValidator.current_line
    line_number,      \* CIFValidator.line_number
    pc,               \* where validate() stands
    loop_data_names,  \* local of _validate_loop
    previous_lines,   \* local deque(maxlen=2) of _validate_semicolon_data_item
    idle_passes,      \* passes of validate()'s loop that took no branch
    result,           \* how validate() ended
    parser_pc,        \* where load_cif stands: in CIFParser.__init__, in parse()
    parser_raw_data,  \* CIFParser.raw_data
    data_blocks,      \* CIFParser.data_blocks
    block_index,      \* the block the loop of parse() is at
    load_result,      \* how load_cif ended
    earlier_calls     \* what earlier calls of validate() and parse() on the
                      \* same instances gave, when there were any

validator_vars == << warned, lines, consumed, current_line, line_number, pc,
                     loop_data_names, previous_lines, idle_passes, result >>

parser_vars == << parser_pc, parser_raw_data, data_blocks, block_index,
                  load_result >>

vars == << raw_data, validator_vars, parser_vars, earlier_calls >>

MaxIdle == 2

Running == [kind |-> "running"]

\* CIFValidator.__init__
Init ==
    /\ raw_data \in RawInputs
    /\ warned = (Len(raw_data) = 0 \/ IsSpaceString(raw_data))
    /\ lines = SplitLines(raw_data)
    /\ consumed = 1
    /\ current_line = lines[1]
    /\ line_number = 1
    /\ pc = "validate"
    /\ loop_data_names = <<>>
    /\ previous_lines = <<>>
    /\ idle_passes = 0
    /\ result = Running
    /\ parser_pc = "__init__"
    /\ parser_raw_data = raw_data
    /\ data_blocks = <<>>
    /\ block_index = 0
    /\ load_result = Running
    /\ earlier_calls = [validate |-> <<>>, parse |-> <<>>]

(***************************************************************************)
(* CIFValidator.                                                           *)
(***************************************************************************)

\* next(self.lines) raises StopIteration
Exhausted == consumed = Len(lines)

\* _next_line with the increment of line_number left out
_next_line_uncounted ==
    /\ ~Exhausted
    /\ current_line' = lines[consumed + 1]
    /\ consumed' = consumed + 1
    /\ line_number' = line_number

\* _next_line, when the generator has a line left
_next_line ==
    /\ ~Exhausted
    /\ current_line' = lines[consumed + 1]
    /\ consumed' = consumed + 1
    /\ line_number' = line_number + 1

\* validate(): except StopIteration: return True
ReturnTrue ==
    /\ result' = [kind |-> "return", value |-> "True"]
    /\ pc' = "done"

\* error(): raise CIFParseError('{} on line {}: "{}"'.format(...))
ErrorText(message, n, line) == <<message, " on line ", n, ": \"", line, "\"">>

error(message, n, line) ==
    /\ result' = [kind |-> "raise", type |-> "CIFParseError",
                  text |-> ErrorText(message, n, line)]
    /\ pc' = "done"

\* previous_lines[1] on a deque holding fewer than two lines
RaiseIndexError ==
    /\ result' = [kind |-> "raise", type |-> "IndexError",
                  text |-> <<"deque index out of range">>]
    /\ pc' = "done"

\* self._next_line() at a place where StopIteration reaches validate()'s handler
Advance(next_pc) ==
    IF Exhausted
    THEN ReturnTrue /\ UNCHANGED <<consumed, current_line, line_number>>
    ELSE _next_line /\ pc' = next_pc /\ UNCHANGED result

_is_valid_single_line ==
    \/ COMMENT_OR_BLANK(current_line)
    \/ INLINE_DATA_ITEM(current_line)
    \/ DATA_BLOCK_HEADING(current_line)

_is_loop_data_values ==
    /\ DATA_VALUE(current_line)
    /\ ~LOOP(current_line)
    /\ ~DATA_BLOCK_HEADING(current_line)

\* validate(), first branch: a line needing no further validation
ValidSingleLine ==
    /\ pc = "validate"
    /\ _is_valid_single_line
    /\ Advance("validate")
    /\ UNCHANGED <<parser_vars, earlier_calls>>
    /\ UNCHANGED <<raw_data, warned, lines, loop_data_names, previous_lines,
                   idle_passes>>

\* validate(), second branch: _validate_loop() up to the first line after
\* "loop_", where _get_loop_data_names() starts collecting
EnterLoop ==
    /\ pc = "validate"
    /\ ~_is_valid_single_line
    /\ LOOP(current_line)
    /\ loop_data_names' = <<>>
    /\ Advance("get_loop_data_names")
    /\ UNCHANGED <<parser_vars, earlier_calls>>
    /\ UNCHANGED <<raw_data, warned, lines, previous_lines, idle_passes>>

\* one pass of the loop of _get_loop_data_names()
GetLoopDataNames ==
    /\ pc = "get_loop_data_names"
    /\ IF COMMENT_OR_BLANK(current_line)
       THEN Advance("get_loop_data_names") /\ UNCHANGED loop_data_names
       ELSE IF DATA_NAME(current_line)
       THEN /\ loop_data_names' = Append(loop_data_names, DataNameGroup(current_line))
            /\ Advance("get_loop_data_names")
       ELSE /\ pc' = "validate_loop"
            /\ UNCHANGED <<loop_data_names, consumed, current_line, line_number,
                           result>>
    /\ UNCHANGED <<parser_vars, earlier_calls>>
    /\ UNCHANGED <<raw_data, warned, lines, previous_lines, idle_passes>>

\* one pass of the loop of _validate_loop()
ValidateLoop ==
    /\ pc = "validate_loop"
    /\ IF COMMENT_OR_BLANK(current_line)
       THEN Advance("validate_loop")
       ELSE IF _is_loop_data_values
       THEN IF Len(DataValueFindAll(current_line, 1)) # Len(loop_data_names)
            THEN /\ error("Unmatched data values to data names in loop",
                          line_number, current_line)
                 /\ UNCHANGED <<consumed, current_line, line_number>>
            ELSE Advance("validate_loop")
       ELSE /\ pc' = "validate"
            /\ UNCHANGED <<consumed, current_line, line_number, result>>
    /\ UNCHANGED <<parser_vars, earlier_calls>>
    /\ UNCHANGED <<raw_data, warned, lines, loop_data_names, previous_lines,
                   idle_passes>>

\* validate(), third branch
MissingInlineDataName ==
    /\ pc = "validate"
    /\ ~_is_valid_single_line
    /\ ~LOOP(current_line)
    /\ DATA_VALUE(LStrip(current_line))
    /\ error("Missing inline data name", line_number, current_line)
    /\ UNCHANGED <<parser_vars, earlier_calls>>
    /\ UNCHANGED <<raw_data, warned, lines, consumed, current_line, line_number,
                   loop_data_names, previous_lines, idle_passes>>

\* validate(), fourth branch: _validate_lone_data_name() up to its call of
\* _validate_semicolon_data_item()
ValidateLoneDataName ==
    /\ pc = "validate"
    /\ ~_is_valid_single_line
    /\ ~LOOP(current_line)
    /\ ~DATA_VALUE(LStrip(current_line))
    /\ DATA_NAME(current_line)
    /\ IF Exhausted
       THEN /\ error("Invalid inline data value", line_number, current_line)
            /\ UNCHANGED <<consumed, current_line, line_number>>
       ELSE /\ _next_line
            /\ IF StartsWithSemicolon(current_line')
               THEN pc' = "semicolon_data_item" /\ UNCHANGED result
               ELSE error("Invalid inline data value", line_number, current_line)
    /\ UNCHANGED <<parser_vars, earlier_calls>>
    /\ UNCHANGED <<raw_data, warned, lines, loop_data_names, previous_lines,
                   idle_passes>>

\* _validate_semicolon_data_item() up to its loop: step over the opening ";"
OpenSemicolonField ==
    /\ pc = "semicolon_data_item"
    /\ previous_lines' = <<>>
    /\ Advance("text_field")
    /\ UNCHANGED <<parser_vars, earlier_calls>>
    /\ UNCHANGED <<raw_data, warned, lines, loop_data_names, idle_passes>>

\* deque(maxlen=2).append
DequeAppend(d, x) == IF Len(d) < 2 THEN Append(d, x) ELSE <<d[2], x>>

\* one pass of the loop of _validate_semicolon_data_item(), and what follows
\* the loop when it breaks
ValidateTextField ==
    /\ pc = "text_field"
    /\ IF COMMENT_OR_BLANK(current_line) \/ TEXT_FIELD(current_line)
       THEN /\ previous_lines' =
                   DequeAppend(previous_lines, <<line_number, current_line>>)
            /\ IF Exhausted
               THEN /\ error("Unclosed semicolon text field",
                             line_number, current_line)
                    /\ UNCHANGED <<consumed, current_line, line_number>>
               ELSE _next_line /\ UNCHANGED <<pc, result>>
       ELSE /\ UNCHANGED previous_lines
            /\ IF ~StartsWithSemicolon(current_line)
               THEN /\ IF Len(previous_lines) < 2
                       THEN RaiseIndexError
                       ELSE error("Unclosed semicolon text field",
                                  previous_lines[2][1], previous_lines[2][2])
                    /\ UNCHANGED <<consumed, current_line, line_number>>
               ELSE Advance("validate")
    /\ UNCHANGED <<parser_vars, earlier_calls>>
    /\ UNCHANGED <<raw_data, warned, lines, loop_data_names, idle_passes>>

\* validate(): a pass of the loop in which no branch is taken
IdlePass ==
    /\ pc = "validate"
    /\ ~_is_valid_single_line
    /\ ~LOOP(current_line)
    /\ ~DATA_VALUE(LStrip(current_line))
    /\ ~DATA_NAME(current_line)
    /\ idle_passes < MaxIdle
    /\ idle_passes' = idle_passes + 1
    /\ UNCHANGED <<parser_vars, earlier_calls>>
    /\ UNCHANGED <<raw_data, warned, lines, consumed, current_line, line_number,
                   pc, loop_data_names, previous_lines, result>>

(***************************************************************************)
(* CIFParser, DataBlock and load_cif.                                      *)
(***************************************************************************)

\* CIFParser.__init__ letting a failed validation pass and going on
CIFParser__init__unguarded ==
    /\ parser_pc = "__init__"
    /\ pc = "done"
    /\ data_blocks' = <<>>
    /\ parser_pc' = "_strip_comments_and_blank_lines"
    /\ UNCHANGED <<raw_data, validator_vars, earlier_calls, parser_raw_data, block_index,
                   load_result>>

\* CIFParser.__init__ from the return of validator.validate(): what validate()
\* raises leaves __init__ and load_cif, else self.data_blocks = []
CIFParser__init__ ==
    /\ parser_pc = "__init__"
    /\ pc = "done"
    /\ IF result.kind = "raise"
       THEN /\ load_result' = result
            /\ parser_pc' = "raised"
            /\ UNCHANGED data_blocks
       ELSE /\ data_blocks' = <<>>
            /\ parser_pc' = "_strip_comments_and_blank_lines"
            /\ UNCHANGED load_result
    /\ UNCHANGED <<raw_data, validator_vars, earlier_calls, parser_raw_data, block_index>>

\* the lines COMMENT_OR_BLANK does not match, joined again
StripCommentsAndBlankLines(t) ==
    JoinLines(SelectSeq(SplitLines(t), LAMBDA line : ~COMMENT_OR_BLANK(line)))

\* parse(): self._strip_comments_and_blank_lines()
_strip_comments_and_blank_lines ==
    /\ parser_pc = "_strip_comments_and_blank_lines"
    /\ parser_raw_data' = StripCommentsAndBlankLines(parser_raw_data)
    /\ parser_pc' = "_extract_data_blocks"
    /\ UNCHANGED <<raw_data, validator_vars, earlier_calls, data_blocks, block_index,
                   load_result>>

\* DataBlock.__init__
DataBlock(header, block_raw_data) ==
    [header |-> header, raw_data |-> block_raw_data, data_items |-> <<>>]

\* headers [::2] of the pieces zipped with blocks [1::2]
ZipDataBlocks(pieces) ==
    [i \in 1..(Len(pieces) \div 2) |-> DataBlock(pieces[2 * i - 1], pieces[2 * i])]

\* DATA_BLOCK_HEADING.split(t)[1:], made into data blocks
DataBlocksOf(t) ==
    ZipDataBlocks(Tail(Split(t, FindIter("DATA_BLOCK_HEADING", t, 1), 1)))

\* the loop of parse() starting a block with its inline pass
NextBlock_inline_first(i, blocks) ==
    /\ block_index' = i + 1
    /\ parser_pc' = IF i + 1 <= Len(blocks) THEN "INLINE_DATA_ITEM"
                    ELSE "parsed"

\* where the loop of parse() goes on after block number i
NextBlock(i, blocks) ==
    /\ block_index' = i + 1
    /\ parser_pc' = IF i + 1 <= Len(blocks) THEN "SEMICOLON_DATA_ITEM"
                    ELSE "parsed"

\* _extract_data_blocks without its first line, self.data_blocks = []
_extract_data_blocks_appending ==
    /\ parser_pc = "_extract_data_blocks"
    /\ data_blocks' = data_blocks \o DataBlocksOf(parser_raw_data)
    /\ NextBlock(0, data_blocks')
    /\ UNCHANGED <<raw_data, validator_vars, earlier_calls, parser_raw_data,
                   load_result>>

\* parse(): self._extract_data_blocks()
_extract_data_blocks ==
    /\ parser_pc = "_extract_data_blocks"
    /\ data_blocks' = DataBlocksOf(parser_raw_data)
    /\ NextBlock(0, data_blocks')
    /\ UNCHANGED <<raw_data, validator_vars, earlier_calls, parser_raw_data, load_result>>

\* the loop of extract_data_items over the matches found
RECURSIVE SetDataItems(_, _, _)
SetDataItems(data_items, matches, data_item_pattern) ==
    IF matches = <<>> THEN data_items
    ELSE LET m == Head(matches)
             data_value == IF data_item_pattern = "SEMICOLON_DATA_ITEM"
                           THEN <<"'">> \o m.value \o <<"'">>
                           ELSE m.value
         IN  SetDataItems(DictSet(data_items, m.name, "str", data_value),
                          Tail(matches), data_item_pattern)

\* DataBlock.extract_data_items(data_item_pattern) on a block, given
\* the matches of the pattern in its raw_data
WithDataItems(block, matches, data_item_pattern) ==
    [block EXCEPT
        !.data_items = SetDataItems(block.data_items, matches, data_item_pattern),
        !.raw_data = Sub(block.raw_data, matches, 1)]

ExtractDataItems(block, data_item_pattern) ==
    WithDataItems(block, FindIter(data_item_pattern, block.raw_data, 1),
                  data_item_pattern)

\* parse(): data_block.extract_data_items(data_item_pattern)
extract_data_items(data_item_pattern, next_pc) ==
    /\ parser_pc = data_item_pattern
    /\ data_blocks' = [data_blocks EXCEPT ![block_index] =
                           ExtractDataItems(data_blocks[block_index],
                                            data_item_pattern)]
    /\ parser_pc' = next_pc
    /\ UNCHANGED <<raw_data, validator_vars, earlier_calls, parser_raw_data, block_index,
                   load_result>>

\* {data_name: [] for data_name in data_names}: the keys, each once
RECURSIVE Unique(_)
Unique(names) ==
    IF names = <<>> THEN <<>>
    ELSE LET front == Unique(SubSeq(names, 1, Len(names) - 1))
             last  == names[Len(names)]
         IN  IF \E i \in 1..Len(front) : front[i] = last THEN front
             ELSE Append(front, last)

\* the values zip(data_names, data_values) gives to data_name
RECURSIVE ZipValues(_, _, _)
ZipValues(data_names, data_values, data_name) ==
    IF data_names = <<>> \/ data_values = <<>> THEN <<>>
    ELSE (IF Head(data_names) = data_name THEN <<Head(data_values)>> ELSE <<>>)
         \o ZipValues(Tail(data_names), Tail(data_values), data_name)

\* the list of data_name once every value line has been gone through
RECURSIVE ColumnValues(_, _, _)
ColumnValues(data_names, data_value_lines, data_name) ==
    IF data_value_lines = <<>> THEN <<>>
    ELSE ZipValues(data_names, DataValueFindAll(Head(data_value_lines), 1),
                   data_name)
         \o ColumnValues(data_names, Tail(data_value_lines), data_name)

\* loop_data_items, given the keys of the dict
LoopTable(keys, data_names, data_value_lines) ==
    [i \in 1..Len(keys) |->
        [key |-> keys[i], kind |-> "list",
         value |-> ColumnValues(data_names, data_value_lines, keys[i])]]

\* loop_data_items, given the matches of DATA_NAME_START_LINE and the lines
LoopDataItemsOf(found, loop_lines) ==
    LoopTable(Unique([i \in 1..Len(found) |-> found[i].name]),
              [i \in 1..Len(found) |-> found[i].name],
              SubSeq(loop_lines, Len(found) + 1, Len(loop_lines)))

\* loop_data_items of one loop of extract_loop_data_items
LoopDataItems(loop) ==
    LoopDataItemsOf(FindIter("DATA_NAME_START_LINE", loop, 1), SplitLines(loop))

\* the loop of extract_loop_data_items from loop number i on
RECURSIVE SetLoopDataItems(_, _, _)
SetLoopDataItems(data_items, loops, i) ==
    IF i > Len(loops) THEN data_items
    ELSE SetLoopDataItems(
             DictSet(data_items, <<"l", "o", "o", "p", "_">> \o Decimal(i),
                     "dict", LoopDataItems(loops[i])),
             loops, i + 1)

\* DataBlock.extract_loop_data_items() on a block
ExtractLoopDataItems(block) ==
    [block EXCEPT
        !.data_items =
            SetLoopDataItems(block.data_items,
                Tail(Split(block.raw_data, FindIter("LOOP", block.raw_data, 1), 1)),
                1)]

\* extract_loop_data_items raising on a loop that declares no data name, as
\* a read of data_names[0] would
extract_loop_data_items_strict ==
    /\ parser_pc = "extract_loop_data_items"
    /\ data_blocks' = [data_blocks EXCEPT ![block_index] =
                           ExtractLoopDataItems(data_blocks[block_index])]
    /\ IF \E n \in 1..Len(data_blocks'[block_index].data_items) :
              /\ data_blocks'[block_index].data_items[n].kind = "dict"
              /\ data_blocks'[block_index].data_items[n].value = <<>>
       THEN /\ load_result' = [kind |-> "raise", type |-> "IndexError",
                               text |-> <<"list index out of range">>]
            /\ parser_pc' = "raised"
            /\ UNCHANGED block_index
       ELSE /\ NextBlock(block_index, data_blocks)
            /\ UNCHANGED load_result
    /\ UNCHANGED <<raw_data, validator_vars, earlier_calls, parser_raw_data>>

\* parse(): data_block.extract_loop_data_items(), the last call on a block
extract_loop_data_items ==
    /\ parser_pc = "extract_loop_data_items"
    /\ data_blocks' = [data_blocks EXCEPT ![block_index] =
                           ExtractLoopDataItems(data_blocks[block_index])]
    /\ NextBlock(block_index, data_blocks)
    /\ UNCHANGED <<raw_data, validator_vars, earlier_calls, parser_raw_data, load_result>>

\* dict((data_block.header, data_block.data_items) for ...) from block i on
RECURSIVE DictOfBlocks(_, _, _)
DictOfBlocks(d, blocks, i) ==
    IF i > Len(blocks) THEN d
    ELSE DictOfBlocks(DictSet(d, blocks[i].header, "dict", blocks[i].data_items),
                      blocks, i + 1)

\* load_cif: the return after p.parse()
load_cif ==
    /\ parser_pc = "parsed"
    /\ load_result' = [kind |-> "return",
                       value |-> DictOfBlocks(<<>>, data_blocks, 1)]
    /\ parser_pc' = "returned"
    /\ UNCHANGED <<raw_data, validator_vars, earlier_calls, parser_raw_data, data_blocks,
                   block_index>>

\* validate() called a second time on the same CIFValidator: nothing of the
\* instance is set anew, the generator self.lines stands where it stood
validate_again ==
    /\ pc = "done"
    /\ earlier_calls.validate = <<>>
    /\ earlier_calls' = [earlier_calls EXCEPT !.validate = <<result>>]
    /\ pc' = "validate"
    /\ result' = Running
    /\ UNCHANGED <<raw_data, warned, lines, consumed, current_line, line_number,
                   loop_data_names, previous_lines, idle_passes, parser_vars>>

\* parse() called a second time on the same CIFParser: it starts from the
\* raw_data the first call left
parse_again ==
    /\ parser_pc = "parsed"
    /\ earlier_calls.parse = <<>>
    /\ earlier_calls' = [earlier_calls EXCEPT !.parse = <<data_blocks>>]
    /\ parser_pc' = "_strip_comments_and_blank_lines"
    /\ UNCHANGED <<raw_data, validator_vars, parser_raw_data, data_blocks,
                   block_index, load_result>>

\* parse() on a CIFParser whose raw_data went through no validation: the
\* extraction path fed directly, as the tests feed DataBlock
parse_unvalidated ==
    /\ parser_pc = "__init__"
    /\ pc = "validate"
    /\ line_number = 1
    /\ data_blocks' = <<>>
    /\ parser_pc' = "_strip_comments_and_blank_lines"
    /\ UNCHANGED <<raw_data, validator_vars, earlier_calls, parser_raw_data,
                   block_index, load_result>>

Next ==
    \/ ValidSingleLine
    \/ EnterLoop
    \/ GetLoopDataNames
    \/ ValidateLoop
    \/ MissingInlineDataName
    \/ ValidateLoneDataName
    \/ OpenSemicolonField
    \/ ValidateTextField
    \/ IdlePass
    \/ CIFParser__init__
    \/ _strip_comments_and_blank_lines
    \/ _extract_data_blocks
    \/ extract_data_items("SEMICOLON_DATA_ITEM", "INLINE_DATA_ITEM")
    \/ extract_data_items("INLINE_DATA_ITEM", "extract_loop_data_items")
    \/ extract_loop_data_items
    \/ load_cif

Spec == Init /\ [][Next]_vars

\* a CIFValidator used on its own, validate() called up to twice
NextValidateAgain ==
    \/ ValidSingleLine
    \/ EnterLoop
    \/ GetLoopDataNames
    \/ ValidateLoop
    \/ MissingInlineDataName
    \/ ValidateLoneDataName
    \/ OpenSemicolonField
    \/ ValidateTextField
    \/ IdlePass
    \/ validate_again

SpecValidateAgain == Init /\ [][NextValidateAgain]_vars

\* a CIFParser used on its own, parse() called up to twice
NextParseAgain ==
    \/ ValidSingleLine
    \/ EnterLoop
    \/ GetLoopDataNames
    \/ ValidateLoop
    \/ MissingInlineDataName
    \/ ValidateLoneDataName
    \/ OpenSemicolonField
    \/ ValidateTextField
    \/ IdlePass
    \/ CIFParser__init__
    \/ _strip_comments_and_blank_lines
    \/ _extract_data_blocks
    \/ extract_data_items("SEMICOLON_DATA_ITEM", "INLINE_DATA_ITEM")
    \/ extract_data_items("INLINE_DATA_ITEM", "extract_loop_data_items")
    \/ extract_loop_data_items
    \/ parse_again

SpecParseAgain == Init /\ [][NextParseAgain]_vars

\* the extraction path alone, on any text: no validation before it
NextExtraction ==
    \/ parse_unvalidated
    \/ _strip_comments_and_blank_lines
    \/ _extract_data_blocks
    \/ extract_data_items("SEMICOLON_DATA_ITEM", "INLINE_DATA_ITEM")
    \/ extract_data_items("INLINE_DATA_ITEM", "extract_loop_data_items")
    \/ extract_loop_data_items

SpecExtraction == Init /\ [][NextExtraction]_vars

(***************************************************************************)
(* Vocabulary of the properties: lines and inputs as the specification     *)
(* describes them, read off raw_data and not off the validator's state.    *)
(***************************************************************************)
NewlinesBefore(i) == Cardinality({ k \in 1..(i - 1) : raw_data[k] = "\n" })

LineCount == NewlinesBefore(Len(raw_data) + 1) + 1

\* the line at 1-based position n of raw_data
OriginalLine(n) ==
    LET a == IF n = 1 THEN 1
             ELSE 1 + CHOOSE k \in 1..Len(raw_data) :
                          raw_data[k] = "\n" /\ NewlinesBefore(k) = n - 2
        b == CHOOSE j \in a..(Len(raw_data) + 1) :
                 /\ \A k \in a..(j - 1) : raw_data[k] # "\n"
                 /\ j = Len(raw_data) + 1 \/ raw_data[j] = "\n"
    IN  SubSeq(raw_data, a, b - 1)

Messages ==
    { "Missing inline data name", "Invalid inline data value",
      "Unmatched data values to data names in loop",
      "Unclosed semicolon text field" }

RaisedParseError == result.kind = "raise" /\ result.type = "CIFParseError"

\* validate() raised CIFParseError with this message for line n, text `line`
Raised(message, n, line) ==
    /\ RaisedParseError
    /\ result.text = <<message, " on line ", n, ": \"", line, "\"">>

\* the step raises CIFParseError with this message for line n, text `line`
Raises(message, n, line) ==
    result' = [kind |-> "raise", type |-> "CIFParseError",
               text |-> <<message, " on line ", n, ": \"", line, "\"">>]

\* the first character of the line that is not white space (0: there is none)
FirstNonSpace(s) == IF SkipSpace(s, 1) > Len(s) THEN 0 ELSE SkipSpace(s, 1)

\* the first token of the line is a loop marker or a block heading
MarkerFirst(s) ==
    LET p == FirstNonSpace(s)
    IN  p # 0 /\ ( \/ LiteralAt(s, p, <<"l", "o", "o", "p", "_">>)
                   \/ LiteralAt(s, p, <<"d", "a", "t", "a", "_">>) )

\* a line whose first token is a value: no data name, marker or comment first
BareValueLine(s) ==
    LET p == FirstNonSpace(s)
    IN  p # 0 /\ s[p] \notin {"_", "#"} /\ ~MarkerFirst(s)

\* a comment line (first token starts with "#") or a blank line
CommentOrBlankLine(s) ==
    LET p == FirstNonSpace(s) IN p = 0 \/ s[p] = "#"

\* a data name and nothing after it on the line
BareNameLine(s) ==
    LET p == FirstNonSpace(s)
    IN  /\ p # 0 /\ p < Len(s) /\ s[p] = "_" /\ ~IsSpace(s[p + 1])
        /\ \A k \in SkipNonSpace(s, p)..Len(s) : IsSpace(s[k])

(***************************************************************************)
(* C1: every validate() call that ends either returns True or raises       *)
(* CIFParseError; no other exception type escapes it.                      *)
(***************************************************************************)
C1_TrueOrParseError ==
    pc = "done" =>
        \/ result.kind = "return" /\ result.value = "True"
        \/ RaisedParseError

(***************************************************************************)
(* C2: every pass of validate()'s dispatch loop advances to a later line,  *)
(* raises, or ends validation.                                             *)
(***************************************************************************)
C2_EveryPassProgresses ==
    [][pc = "validate" => (line_number' > line_number \/ pc' = "done")]_vars

(***************************************************************************)
(* C3: line_number is the 1-based position of current_line in raw_data,    *)
(* and a CIFParseError reads '<message> on line <n>: "<line>"' with <line> *)
(* the text of line <n> of raw_data.                                       *)
(***************************************************************************)
C3_LineNumberAccuracy ==
    /\ line_number \in 1..LineCount
    /\ current_line = OriginalLine(line_number)
    /\ RaisedParseError =>
           \E message \in Messages, n \in 1..LineCount :
               Raised(message, n, OriginalLine(n))

\* an unclosed text field reported for a line before the one being read
C3_Witness ==
    /\ RaisedParseError
    /\ result.text[1] = "Unclosed semicolon text field"
    /\ result.text[3] < line_number

(***************************************************************************)
(* C4: at top level a line whose first token is a value makes validate()   *)
(* raise "Missing inline data name" with that line's number and text.      *)
(***************************************************************************)
C4_BareValueRejected ==
    [][(pc = "validate" /\ BareValueLine(current_line)) =>
           Raises("Missing inline data name", line_number, current_line)]_vars

(***************************************************************************)
(* C5: at top level a data-name line with no value, being the last line or *)
(* followed by a line not starting with ";", makes validate() raise        *)
(* "Invalid inline data value" with the data-name line's number and text.  *)
(***************************************************************************)
C5_LoneNameRejected ==
    [][( /\ pc = "validate"
         /\ BareNameLine(current_line)
         /\ line_number = LineCount
              \/ ~StartsWithSemicolon(OriginalLine(line_number + 1)) ) =>
           Raises("Invalid inline data value", line_number, current_line)]_vars

(***************************************************************************)
(* C6: in a loop with N declared names a value row with a number of values *)
(* other than N makes validate() raise "Unmatched data values to data      *)
(* names in loop" with the row's number and text; a row of N values, a     *)
(* comment or a blank line raises nothing.                                 *)
(***************************************************************************)
C6_LoopRowCount ==
    [][pc = "validate_loop" =>
           /\ ( /\ BareValueLine(current_line)
                /\ Len(DataValueFindAll(current_line, 1)) # Len(loop_data_names) )
                => Raises("Unmatched data values to data names in loop",
                          line_number, current_line)
           /\ ( \/ CommentOrBlankLine(current_line)
                \/ /\ BareValueLine(current_line)
                   /\ Len(DataValueFindAll(current_line, 1)) = Len(loop_data_names) )
                => result'.kind # "raise"]_vars

(***************************************************************************)
(* C7: when the input ends inside an open semicolon text field, validate() *)
(* raises "Unclosed semicolon text field", for the last line read inside   *)
(* the field when there is one, and never returns True.                    *)
(***************************************************************************)
C7_UnclosedAtEndOfInput ==
    [][( /\ pc \in {"semicolon_data_item", "text_field"}
         /\ line_number = LineCount
         /\ pc = "text_field" => ~StartsWithSemicolon(current_line) ) =>
           /\ RaisedParseError'
           /\ result'.text[1] = "Unclosed semicolon text field"
           /\ pc = "text_field" =>
                  Raises("Unclosed semicolon text field",
                         line_number, current_line)]_vars

(***************************************************************************)
(* C8: a data-name line met inside an open semicolon text field that has   *)
(* one or more content lines makes validate() raise "Unclosed semicolon    *)
(* text field" with the number and text of the last content line.          *)
(***************************************************************************)
C8_UnclosedBeforeName ==
    [][( /\ pc = "text_field"
         /\ Len(previous_lines) >= 1
         /\ BareNameLine(current_line) ) =>
           Raises("Unclosed semicolon text field",
                  line_number - 1, OriginalLine(line_number - 1))]_vars

(***************************************************************************)
(* C9: validate() returns True for every well-formed input: comment and    *)
(* blank lines, block headings, inline items, loops (marker, one or more   *)
(* declared names, rows of as many values, comments and blanks anywhere    *)
(* after the marker) and semicolon fields (name line, ";" line, content    *)
(* lines that are not a lone ";", closing ";" line).                       *)
(***************************************************************************)
\* a data name, white space and a value token on one line
InlineItemLine(s) ==
    LET p == FirstNonSpace(s)
        k == SkipNonSpace(s, p)
        m == SkipSpace(s, k)
    IN  /\ p # 0 /\ p < Len(s) /\ s[p] = "_" /\ ~IsSpace(s[p + 1])
        /\ m > k /\ m <= Len(s) /\ s[m] \notin {"_", "#"}

HeadingMarkerLine(s) == LiteralAt(s, 1, <<"d", "a", "t", "a", "_">>)

LoopMarkerLine(s) ==
    /\ LiteralAt(s, 1, <<"l", "o", "o", "p", "_">>)
    /\ \A k \in 6..Len(s) : IsSpace(s[k])

\* a row of n value tokens (not opening with the text-field delimiter)
ValueRow(s, n) ==
    /\ BareValueLine(s)
    /\ s[FirstNonSpace(s)] # ";"
    /\ Len(DataValueFindAll(s, 1)) = n

\* the lines from position i on are well formed, read in context `mode`
\* ("top", "names", "rows", "opening", "field") with n names declared
RECURSIVE WellFormedFrom(_, _, _, _)
WellFormedFrom(ls, i, mode, n) ==
    IF i > Len(ls)
    THEN mode = "top" \/ (mode \in {"names", "rows"} /\ n >= 1)
    ELSE LET s == ls[i] IN
         CASE mode = "top" ->
                  IF CommentOrBlankLine(s) \/ HeadingMarkerLine(s) \/ InlineItemLine(s)
                  THEN WellFormedFrom(ls, i + 1, "top", 0)
                  ELSE IF LoopMarkerLine(s)
                  THEN WellFormedFrom(ls, i + 1, "names", 0)
                  ELSE IF BareNameLine(s)
                  THEN WellFormedFrom(ls, i + 1, "opening", 0)
                  ELSE FALSE
           [] mode = "names" ->
                  IF CommentOrBlankLine(s)
                  THEN WellFormedFrom(ls, i + 1, "names", n)
                  ELSE IF BareNameLine(s)
                  THEN WellFormedFrom(ls, i + 1, "names", n + 1)
                  ELSE n >= 1 /\ WellFormedFrom(ls, i, "rows", n)
           [] mode = "rows" ->
                  IF CommentOrBlankLine(s) \/ ValueRow(s, n)
                  THEN WellFormedFrom(ls, i + 1, "rows", n)
                  ELSE WellFormedFrom(ls, i, "top", 0)
           [] mode = "opening" ->
                  s = <<";">> /\ WellFormedFrom(ls, i + 1, "field", 0)
           [] mode = "field" ->
                  IF s = <<";">>
                  THEN WellFormedFrom(ls, i + 1, "top", 0)
                  ELSE WellFormedFrom(ls, i + 1, "field", 0)

WellFormedInput ==
    WellFormedFrom([n \in 1..LineCount |-> OriginalLine(n)], 1, "top", 0)

C9_WellFormedAccepted ==
    WellFormedInput =>
        /\ idle_passes = 0
        /\ pc = "done" => result.kind = "return" /\ result.value = "True"

\* C10: validation comes before everything else in the parser. The parser
\* leaves __init__ only once validate() has ended; as long as validate() has
\* not returned, CIFParser.raw_data is still the unfiltered text, no data block
\* exists, no parse step has been taken and load_cif has returned nothing; and
\* when validate() raised, what load_cif's caller gets is that very error.
C10_ValidationPrecedesExtraction ==
    /\ lines = SplitLines(raw_data)
    /\ parser_pc # "__init__" => pc = "done"
    /\ result.kind # "return" =>
           /\ parser_pc \in {"__init__", "raised"}
           /\ parser_raw_data = raw_data
           /\ data_blocks = <<>>
           /\ load_result.kind # "return"
    /\ parser_pc = "raised" => result.kind = "raise" /\ load_result = result

\* a CIFParseError raised by validate() has reached the caller of load_cif
C10_Witness ==
    /\ RaisedParseError
    /\ parser_pc = "raised"
    /\ load_result = result
    /\ data_blocks = <<>>

(***************************************************************************)
(* Vocabulary of the parser's properties: the lines of a text as the       *)
(* specification describes them.                                           *)
(***************************************************************************)

\* the positions in ls of the lines for which Test holds, in order
PositionsOf(ls, Test(_)) ==
    SelectSeq([i \in 1..Len(ls) |-> i], LAMBDA i : Test(ls[i]))

\* the heading token of a block-heading line, as written
HeadingToken(s) == SubSeq(s, 1, SkipNonSpace(s, 1) - 1)

\* the lines strictly between the k-th heading of ls and the next one (or the
\* end of ls), hs being the positions of the headings
LinesOfBlock(ls, hs, k) ==
    SubSeq(ls, hs[k] + 1, (IF k < Len(hs) THEN hs[k + 1] ELSE Len(ls) + 1) - 1)

\* the text has gone through the filter
Filtered ==
    parser_pc \notin {"__init__", "raised", "_strip_comments_and_blank_lines"}

\* the block split has been made
BlocksSplit == Filtered /\ parser_pc # "_extract_data_blocks"

\* the block split has just been made: no extraction pass has run yet
BlocksJustSplit ==
    \/ parser_pc = "SEMICOLON_DATA_ITEM" /\ block_index = 1
    \/ BlocksSplit /\ data_blocks = <<>>

\* C11: the block split yields one DataBlock per block-heading line of the
\* filtered text, in the order of the headings; each block's header is the
\* heading token as written and, straight after the split, its body is the
\* lines strictly between that heading and the next one (or the end of the
\* text), also when the next heading follows at once.
C11_OneBlockPerHeading ==
    LET ls == SplitLines(parser_raw_data)
        hs == PositionsOf(ls, HeadingMarkerLine)
    IN  BlocksSplit =>
            /\ Len(data_blocks) = Len(hs)
            /\ \A k \in 1..Len(hs) :
                   /\ data_blocks[k].header = HeadingToken(ls[hs[k]])
                   /\ BlocksJustSplit =>
                          data_blocks[k].raw_data = JoinLines(LinesOfBlock(ls, hs, k))

\* parse() has gone through every block
Parsed == parser_pc \in {"parsed", "returned"}

Min(a, b) == IF a <= b THEN a ELSE b

\* the lines of the input that are neither comments nor blank
TextLines == SelectSeq(SplitLines(raw_data), LAMBDA s : ~CommentOrBlankLine(s))

\* the lines of the k-th block of the input
BlockLines(k) ==
    LinesOfBlock(TextLines, PositionsOf(TextLines, HeadingMarkerLine), k)

\* the blocks parse() made that answer to a heading of the input
MatchedBlocks ==
    1..Min(Len(data_blocks), Len(PositionsOf(TextLines, HeadingMarkerLine)))

\* the first position from i on where Test fails (Len(ls) + 1: nowhere)
RunEnd(ls, i, Test(_)) ==
    CHOOSE j \in i..(Len(ls) + 1) :
        /\ \A k \in i..(j - 1) : Test(ls[k])
        /\ j = Len(ls) + 1 \/ ~Test(ls[j])

\* the data name a data-name line declares, without its "_"
NameOf(s) == SubSeq(s, FirstNonSpace(s) + 1, SkipNonSpace(s, FirstNonSpace(s)) - 1)

\* the value tokens of a line: quoted strings, quotes kept, and runs of
\* characters that are not white space
RECURSIVE Tokens(_, _)
Tokens(s, i) ==
    LET p == SkipSpace(s, i)
    IN  IF p > Len(s) THEN <<>>
        ELSE IF s[p] \in {"'", "\""} /\ ClosingQuote(s, p) >= p + 2
        THEN <<SubSeq(s, p, ClosingQuote(s, p))>> \o Tokens(s, ClosingQuote(s, p) + 1)
        ELSE <<SubSeq(s, p, SkipNonSpace(s, p) - 1)>> \o Tokens(s, SkipNonSpace(s, p))

\* the loop whose marker is line p of ls: its declared names, in order, and
\* its value rows, in order
DeclaredNames(ls, p) ==
    [j \in 1..(RunEnd(ls, p + 1, BareNameLine) - p - 1) |-> NameOf(ls[p + j])]

ValueRows(ls, p) ==
    SubSeq(ls, RunEnd(ls, p + 1, BareNameLine),
           RunEnd(ls, RunEnd(ls, p + 1, BareNameLine), BareValueLine) - 1)

\* "loop_k"
LoopKey(k) == <<"l", "o", "o", "p", "_">> \o Decimal(k)

\* items holds under `key` a value of this kind
HasKey(items, key, kind) ==
    \E i \in 1..Len(items) : items[i].key = key /\ items[i].kind = kind

\* items[key]
ValueAt(items, key) ==
    items[CHOOSE i \in 1..Len(items) : items[i].key = key].value

\* the table has one column per declared name, in order, the cell of row r
\* under the j-th name being the j-th token of row r
TableIs(table, names, rows) ==
    /\ Len(table) = Len(names)
    /\ \A j \in 1..Len(table) :
           /\ table[j].key = names[j]
           /\ Len(table[j].value) = Len(rows)
           /\ \A r \in 1..Len(rows) :
                  /\ j <= Len(Tokens(rows[r], 1))
                  /\ table[j].value[r] = Tokens(rows[r], 1)[j]

\* the table stored for the k-th loop of these block lines is the loop's
LoopTableIs(items, ls, loops, k) ==
    /\ HasKey(items, LoopKey(k), "dict")
    /\ TableIs(ValueAt(items, LoopKey(k)), DeclaredNames(ls, loops[k]),
               ValueRows(ls, loops[k]))

\* so it is for every loop of these block lines that declares a name
AllLoopTablesAre(items, ls, loops) ==
    \A k \in 1..Len(loops) :
        Len(DeclaredNames(ls, loops[k])) >= 1 => LoopTableIs(items, ls, loops, k)

\* C12: once an accepted input is parsed, the table of every loop has one
\* column per declared data name, in declaration order, all columns as long
\* as the loop has value rows, the cell of row r under the j-th name being the
\* j-th token of row r; also when two declared names are the same.
C12_LoopTableShape ==
    Parsed =>
        \A b \in MatchedBlocks :
            AllLoopTablesAre(data_blocks[b].data_items, BlockLines(b),
                             PositionsOf(BlockLines(b), LoopMarkerLine))

\* line i of ls is the data name of a semicolon text field: the next line
\* opens the field
FieldAt(ls, i) ==
    /\ i + 1 <= Len(ls)
    /\ BareNameLine(ls[i])
    /\ StartsWithSemicolon(ls[i + 1])

\* the line closing the field opened at line i + 1: the first one after it
\* that starts with ";" (Len(ls) + 1: the field is not closed)
FieldClose(ls, i) ==
    RunEnd(ls, i + 2, LAMBDA s : ~StartsWithSemicolon(s))

\* the content lines of the field named at line i
FieldContent(ls, i) == SubSeq(ls, i + 2, FieldClose(ls, i) - 1)

\* a block heading stands before line i
InsideBlock(ls, i) == \E h \in 1..(i - 1) : HeadingMarkerLine(ls[h])

\* some block holds under `key` the scalar `value`
SomeBlockHolds(key, value) ==
    \E b \in 1..Len(data_blocks) :
        /\ HasKey(data_blocks[b].data_items, key, "str")
        /\ ValueAt(data_blocks[b].data_items, key) = value

\* the field named at line i is stored: its content lines, joined with line
\* breaks, between single quotes
FieldStored(ls, i) ==
    SomeBlockHolds(NameOf(ls[i]),
                   <<"'">> \o JoinLines(FieldContent(ls, i)) \o <<"'">>)

\* C13: once the input is parsed, every closed semicolon text field of a
\* block is stored under its data name as one scalar: all the lines strictly
\* between the opening and the closing ";" line, in order, joined with line
\* breaks, in single quotes; no content line is dropped or altered.
C13_TextFieldStored ==
    Parsed =>
        \A i \in 1..Len(lines) :
            ( /\ FieldAt(lines, i)
              /\ FieldClose(lines, i) <= Len(lines)
              /\ InsideBlock(lines, i) ) => FieldStored(lines, i)

\* the value token of an inline item line: the first token after the name
InlineValueOf(s) == Tokens(s, SkipNonSpace(s, FirstNonSpace(s)))[1]

\* items after storing, in order, the inline item of every line of ls from
\* line i on that is an inline item line
RECURSIVE WithInlineItems(_, _, _)
WithInlineItems(items, ls, i) ==
    IF i > Len(ls) THEN items
    ELSE WithInlineItems(
             IF InlineItemLine(ls[i])
             THEN DictSet(items, NameOf(ls[i]), "str", InlineValueOf(ls[i]))
             ELSE items,
             ls, i + 1)

\* C14: the inline pass stores exactly the items of the lines of the body on
\* which a data name is followed, after white space, by a value token, each
\* under its name and with that one token as its value; a data-name line
\* with no value on it is not extracted and no value is taken from a
\* following line.
C14_InlineItemsOnly ==
    [][parser_pc = "INLINE_DATA_ITEM" =>
           data_blocks'[block_index].data_items =
               WithInlineItems(data_blocks[block_index].data_items,
                               SplitLines(data_blocks[block_index].raw_data), 1)]_vars

\* the lines of a body, its empty lines left aside
BodyLines(t) == SelectSeq(SplitLines(t), LAMBDA s : s # <<>>)

\* ls from line i on without the lines of its closed semicolon text fields
\* (name line, opening line, content lines, closing line)
RECURSIVE WithoutFields(_, _)
WithoutFields(ls, i) ==
    IF i > Len(ls) THEN <<>>
    ELSE IF FieldAt(ls, i) /\ FieldClose(ls, i) <= Len(ls)
    THEN WithoutFields(ls, FieldClose(ls, i) + 1)
    ELSE <<ls[i]>> \o WithoutFields(ls, i + 1)

\* ls without its inline item lines
WithoutInlineItems(ls) == SelectSeq(ls, LAMBDA s : ~InlineItemLine(s))

\* C15: the semicolon pass takes out of the block body the lines of the
\* closed text fields and the inline pass the inline item lines; each leaves
\* every other line of the body as it was and in its place (an empty line
\* left where an item stood is not counted).
C15_PassesRemoveOnlyTheirItems ==
    [][/\ parser_pc = "SEMICOLON_DATA_ITEM" =>
              BodyLines(data_blocks'[block_index].raw_data) =
                  WithoutFields(BodyLines(data_blocks[block_index].raw_data), 1)
       /\ parser_pc = "INLINE_DATA_ITEM" =>
              BodyLines(data_blocks'[block_index].raw_data) =
                  WithoutInlineItems(BodyLines(data_blocks[block_index].raw_data))]_vars

\* C16: parse() takes its steps in one order: the filter, then the block
\* split, then for each block in turn the semicolon pass, the inline pass and
\* the loop pass, the loop pass being the last on a block; a pass changes
\* only the block it runs on, and nothing but these steps changes the text
\* or the blocks.
C16_FixedStepOrder ==
    [][/\ parser_pc = "_strip_comments_and_blank_lines" =>
              /\ parser_pc' = "_extract_data_blocks"
              /\ data_blocks' = data_blocks
       /\ parser_pc = "_extract_data_blocks" =>
              /\ parser_raw_data' = parser_raw_data
              /\ IF data_blocks' = <<>> THEN parser_pc' = "parsed"
                 ELSE parser_pc' = "SEMICOLON_DATA_ITEM" /\ block_index' = 1
       /\ parser_pc = "SEMICOLON_DATA_ITEM" =>
              parser_pc' = "INLINE_DATA_ITEM" /\ block_index' = block_index
       /\ parser_pc = "INLINE_DATA_ITEM" =>
              parser_pc' = "extract_loop_data_items" /\ block_index' = block_index
       /\ parser_pc = "extract_loop_data_items" =>
              IF block_index < Len(data_blocks)
              THEN parser_pc' = "SEMICOLON_DATA_ITEM" /\ block_index' = block_index + 1
              ELSE parser_pc' = "parsed"
       /\ parser_pc \in {"SEMICOLON_DATA_ITEM", "INLINE_DATA_ITEM",
                         "extract_loop_data_items"} =>
              /\ parser_raw_data' = parser_raw_data
              /\ Len(data_blocks') = Len(data_blocks)
              /\ \A b \in 1..Len(data_blocks) :
                     b # block_index => data_blocks'[b] = data_blocks[b]
       /\ parser_pc \in {"__init__", "raised", "parsed", "returned"} =>
              /\ parser_raw_data' = parser_raw_data
              /\ parser_pc = "__init__" \/ data_blocks' = data_blocks]_vars

\* parse() has gone through two blocks, the first one holding an item
C16_Witness ==
    /\ Parsed
    /\ Len(data_blocks) = 2
    /\ block_index = 3
    /\ data_blocks[1].data_items # <<>>

\* C17: the filter removes every comment line and every blank or
\* white-space-only line and no other line: the filtered text is the other
\* lines of the input, unchanged and in order, and filtering it again changes
\* nothing.
C17_FilterRemovesCommentsAndBlanks ==
    Filtered =>
        /\ parser_raw_data = JoinLines(TextLines)
        /\ StripCommentsAndBlankLines(parser_raw_data) = parser_raw_data

\* the keys under which items holds a table
TableKeys(items) ==
    { items[i].key : i \in { j \in 1..Len(items) : items[j].kind = "dict" } }

\* the tokens the rows hold for the declared name `name`: row by row, those
\* at the positions where the name is declared
RECURSIVE CellsOf(_, _, _)
CellsOf(names, rows, name) ==
    IF rows = <<>> THEN <<>>
    ELSE SelectSeq([j \in 1..Min(Len(names), Len(Tokens(Head(rows), 1))) |->
                        IF names[j] = name THEN <<Tokens(Head(rows), 1)[j]>>
                        ELSE <<>>],
                   LAMBDA c : c # <<>>)
         \o CellsOf(names, Tail(rows), name)

\* the table is that of the loop with these declared names and rows: its
\* columns are the declared names and each holds the tokens declared for it
TableOfLoop(table, names, rows) ==
    /\ { table[j].key : j \in 1..Len(table) } = { names[j] : j \in 1..Len(names) }
    /\ \A j \in 1..Len(table) :
           [c \in 1..Len(table[j].value) |-> <<table[j].value[c]>>] =
               CellsOf(names, rows, table[j].key)

\* the loops of these block lines are stored in items as loop_1 .. loop_m
LoopsNumbered(items, ls, loops) ==
    /\ TableKeys(items) = { LoopKey(k) : k \in 1..Len(loops) }
    /\ \A k \in 1..Len(loops) :
           /\ HasKey(items, LoopKey(k), "dict")
           /\ TableOfLoop(ValueAt(items, LoopKey(k)),
                          DeclaredNames(ls, loops[k]), ValueRows(ls, loops[k]))

\* C18: once the input is parsed, a block with m loops holds exactly the
\* table keys loop_1 .. loop_m, the numbering starting at 1 in every block,
\* and loop_k holds the table of the k-th loop of the block's text.
C18_LoopsNumberedPerBlock ==
    Parsed =>
        \A b \in MatchedBlocks :
            LoopsNumbered(data_blocks[b].data_items, BlockLines(b),
                          PositionsOf(BlockLines(b), LoopMarkerLine))

\* C19: what load_cif returns has one entry per data block of the parsed
\* sequence, as many entries as blocks, the entry of a block being its header
\* with the items of that block.
C19_EveryBlockReturned ==
    parser_pc = "returned" =>
        /\ load_result.kind = "return"
        /\ Len(load_result.value) = Len(data_blocks)
        /\ \A b \in 1..Len(data_blocks) :
               /\ HasKey(load_result.value, data_blocks[b].header, "dict")
               /\ ValueAt(load_result.value, data_blocks[b].header) =
                      data_blocks[b].data_items

\* the keys of items
KeysOf(items) == { items[i].key : i \in 1..Len(items) }

\* every entry of `before` is an entry of `after`
Kept(before, after) ==
    \A i \in 1..Len(before) : \E j \in 1..Len(after) : after[j] = before[i]

\* C20: in the blocks of an accepted input the keys of the scalar items and
\* the keys of the loop tables are disjoint: the loop pass stores no table
\* under a key a scalar item (semicolon or inline) was stored under, so every
\* scalar extracted before it is still in items after it, next to the tables.
C20_ScalarAndTableKeysDisjoint ==
    [][parser_pc = "extract_loop_data_items" =>
           /\ TableKeys(data_blocks'[block_index].data_items)
                  \cap KeysOf(data_blocks[block_index].data_items) = {}
           /\ Kept(data_blocks[block_index].data_items,
                   data_blocks'[block_index].data_items)]_vars

\* the three passes have run on block b
PassesDone(b) == BlocksSplit /\ b < block_index

\* C21: when the three extraction passes have completed on a data block of
\* an accepted input, the block's body (raw_data) is empty: every pass, the
\* loop pass too, has taken out of the body the text of the items it stored.
C21_BodyEmptyAfterPasses ==
    \A b \in 1..Len(data_blocks) :
        PassesDone(b) => data_blocks[b].raw_data = <<>>

(***************************************************************************)
(* validate() and parse() as functions of the text, for the properties     *)
(* that compare what they do on two texts.                                 *)
(***************************************************************************)

\* validate() standing at line i of ls (line_number = i) in the given place
\* of its code, with the locals loop_data_names and previous_lines: how the
\* call ends, Running when it never does
RECURSIVE validate_at(_, _, _, _, _)
validate_at(ls, i, place, names, previous) ==
    LET s == ls[i]
        True == [kind |-> "return", value |-> "True"]
        CIFParseError(message, n, line) ==
            [kind |-> "raise", type |-> "CIFParseError",
             text |-> ErrorText(message, n, line)]
        IndexError == [kind |-> "raise", type |-> "IndexError",
                       text |-> <<"deque index out of range">>]
        next(to, ns, ps) ==
            IF i = Len(ls) THEN True ELSE validate_at(ls, i + 1, to, ns, ps)
    IN  CASE place = "validate" ->
                 IF \/ COMMENT_OR_BLANK(s) \/ INLINE_DATA_ITEM(s)
                    \/ DATA_BLOCK_HEADING(s)
                 THEN next("validate", <<>>, <<>>)
                 ELSE IF LOOP(s) THEN next("get_loop_data_names", <<>>, <<>>)
                 ELSE IF DATA_VALUE(LStrip(s))
                 THEN CIFParseError("Missing inline data name", i, s)
                 ELSE IF DATA_NAME(s)
                 THEN IF i < Len(ls) /\ StartsWithSemicolon(ls[i + 1])
                      THEN validate_at(ls, i + 1, "semicolon_data_item", <<>>, <<>>)
                      ELSE CIFParseError("Invalid inline data value", i, s)
                 ELSE Running
          [] place = "get_loop_data_names" ->
                 IF COMMENT_OR_BLANK(s) THEN next("get_loop_data_names", names, <<>>)
                 ELSE IF DATA_NAME(s)
                 THEN next("get_loop_data_names", Append(names, DataNameGroup(s)),
                           <<>>)
                 ELSE validate_at(ls, i, "validate_loop", names, <<>>)
          [] place = "validate_loop" ->
                 IF COMMENT_OR_BLANK(s) THEN next("validate_loop", names, <<>>)
                 ELSE IF DATA_VALUE(s) /\ ~LOOP(s) /\ ~DATA_BLOCK_HEADING(s)
                 THEN IF Len(DataValueFindAll(s, 1)) # Len(names)
                      THEN CIFParseError("Unmatched data values to data names in loop",
                                         i, s)
                      ELSE next("validate_loop", names, <<>>)
                 ELSE validate_at(ls, i, "validate", <<>>, <<>>)
          [] place = "semicolon_data_item" -> next("text_field", <<>>, <<>>)
          [] place = "text_field" ->
                 IF COMMENT_OR_BLANK(s) \/ TEXT_FIELD(s)
                 THEN IF i = Len(ls)
                      THEN CIFParseError("Unclosed semicolon text field", i, s)
                      ELSE validate_at(ls, i + 1, "text_field", <<>>,
                                       DequeAppend(previous, <<i, s>>))
                 ELSE IF ~StartsWithSemicolon(s)
                 THEN IF Len(previous) < 2 THEN IndexError
                      ELSE CIFParseError("Unclosed semicolon text field",
                                         previous[2][1], previous[2][2])
                 ELSE next("validate", <<>>, <<>>)

\* CIFValidator(t).validate()
validate(t) == validate_at(SplitLines(t), 1, "validate", <<>>, <<>>)

\* the loop of parse() over the blocks: the three passes on each
ParseBlocks(blocks) ==
    [b \in 1..Len(blocks) |->
        ExtractLoopDataItems(
            ExtractDataItems(ExtractDataItems(blocks[b], "SEMICOLON_DATA_ITEM"),
                             "INLINE_DATA_ITEM"))]

\* CIFParser.parse() on the text t: the data blocks it leaves
parse(t) == ParseBlocks(DataBlocksOf(StripCommentsAndBlankLines(t)))

\* validate() has ended, or will never end
ValidateOver == pc = "done" \/ idle_passes > 0

\* the functions give what the steps of the program give
FunctionsAgree ==
    /\ ValidateOver => result = validate(raw_data)
    /\ Parsed => data_blocks = parse(raw_data)

\* ls with the line c put in after its line i
InsertLine(ls, i, c) == SubSeq(ls, 1, i) \o <<c>> \o SubSeq(ls, i + 1, Len(ls))

\* after line i of ls one complete declaration has ended and another line
\* follows: the lines up to i are well formed and end at top level, after
\* the declared names of a loop or after a row of a loop
BetweenDeclarations(ls, i) ==
    /\ i >= 1 /\ i < Len(ls)
    /\ WellFormedFrom(SubSeq(ls, 1, i), 1, "top", 0)

\* comment lines and a blank line
CommentOrBlankSamples == { BlankLine, CommentLine, IndentedComment }

\* two calls of validate() end alike: both return True, or both raise the
\* same error with the same message for the same line text
SameOutcome(a, b) ==
    /\ a.kind = b.kind
    /\ a.kind = "raise" =>
           /\ a.type = b.type
           /\ a.text[1] = b.text[1]
           /\ a.type = "CIFParseError" => a.text[5] = b.text[5]

\* what parse() extracted: the header and the items of every block
Extracted(blocks) ==
    [b \in 1..Len(blocks) |->
        [header |-> blocks[b].header, data_items |-> blocks[b].data_items]]

\* the line c put in after line i changes neither how validate() ends nor
\* what parse() extracts
LineChangesNothing(ls, i, c) ==
    /\ ValidateOver =>
           SameOutcome(validate(JoinLines(InsertLine(ls, i, c))), result)
    /\ Parsed =>
           Extracted(parse(JoinLines(InsertLine(ls, i, c)))) = Extracted(data_blocks)

\* C22: a comment line or a blank line put in between two complete
\* declarations of an input (between top-level items, between the declared
\* names of a loop and its rows, between rows) changes neither the outcome
\* of validate(), success or the same error message for the same line text,
\* nor any value parse() extracts.
C22_CommentsAndBlanksIgnored ==
    \A i \in 1..Len(lines), c \in CommentOrBlankSamples :
        BetweenDeclarations(lines, i) => LineChangesNothing(lines, i, c)

\* parse() has ended for the second time on the same instance
ParsedAgain == Parsed /\ earlier_calls.parse # <<>>

\* C23: parse() is a function of the raw text and can be repeated: two
\* instances on the same text, or two calls on one instance, leave equal
\* sequences of data blocks (same headers, same items, same order); the
\* second call on an instance neither loses nor doubles a block or an item.
C23_ParseRepeatable ==
    /\ Parsed => data_blocks = parse(raw_data)
    /\ ParsedAgain => Extracted(data_blocks) = Extracted(earlier_calls.parse[1])

\* a second parse() has ended on an instance holding two blocks, the first
\* with an item
C23_Witness ==
    /\ ParsedAgain
    /\ Len(data_blocks) = 2
    /\ data_blocks[1].data_items # <<>>

\* a list of data blocks: each with a heading token as header, a text as
\* body and items that are scalars or tables of lists
IsDataBlockList(blocks) ==
    \A b \in 1..Len(blocks) :
        /\ DOMAIN blocks[b] = {"header", "raw_data", "data_items"}
        /\ LiteralAt(blocks[b].header, 1, <<"d", "a", "t", "a", "_">>)
        /\ \A i \in 1..Len(blocks[b].data_items) :
               LET item == blocks[b].data_items[i]
               IN  \/ item.kind = "str"
                   \/ /\ item.kind = "dict"
                      /\ \A j \in 1..Len(item.value) : item.value[j].kind = "list"

\* nothing was raised on the extraction path
ExtractionRaisedNothing ==
    /\ parser_pc # "raised"
    /\ load_result.kind # "raise"
    /\ IsDataBlockList(data_blocks)

\* how far parse() has come: the blocks gone through, then the call it
\* stands at
StepsTaken ==
    10 * block_index +
        (CASE parser_pc = "__init__" -> 0
           [] parser_pc = "_strip_comments_and_blank_lines" -> 1
           [] parser_pc = "_extract_data_blocks" -> 2
           [] parser_pc = "SEMICOLON_DATA_ITEM" -> 3
           [] parser_pc = "INLINE_DATA_ITEM" -> 4
           [] parser_pc = "extract_loop_data_items" -> 5
           [] OTHER -> 6)

\* C24: the extraction path (filter, block split, the three passes) raises
\* on no text, the texts validate() rejects included: every step brings it
\* nearer to its end, of which there is one, and it leaves some list of
\* data blocks.
C24_ExtractionNeverRaises ==
    /\ []ExtractionRaisedNothing
    /\ [](block_index <= Len(data_blocks) + 1)
    /\ [][StepsTaken' > StepsTaken]_vars

\* a loop with a row of too many values, which validate() rejects, has been
\* extracted
C24_Witness ==
    /\ parser_pc = "parsed"
    /\ validate(raw_data).kind = "raise"
    /\ validate(raw_data).text[1] = "Unmatched data values to data names in loop"
    /\ Len(data_blocks) >= 1
    /\ HasKey(data_blocks[1].data_items, LoopKey(1), "dict")
    /\ ValueAt(data_blocks[1].data_items, LoopKey(1)) # <<>>

\* the text is empty or white space alone
EmptyInput == Len(raw_data) = 0 \/ IsSpaceString(raw_data)

C26_SemicolonLineClosesField ==
    [][(pc = "text_field" /\ StartsWithSemicolon(current_line)) =>
           /\ previous_lines' = previous_lines
           /\ IF line_number = LineCount
              THEN result' = [kind |-> "return", value |-> "True"]
              ELSE /\ pc' = "validate"
                   /\ line_number' = line_number + 1
                   /\ current_line' = OriginalLine(line_number + 1)
                   /\ result' = Running]_vars

\* a line that ends the value rows of a loop: a loop marker, a block
\* heading, or a line whose first token is a data name
EndsRows(s) ==
    \/ LoopMarkerLine(s)
    \/ HeadingMarkerLine(s)
    \/ FirstNonSpace(s) # 0 /\ s[FirstNonSpace(s)] = "_"

\* the last loop marker line before line n (0: there is none)
LoopMarkerBefore(n) ==
    LET ms == { k \in 1..(n - 1) : LoopMarkerLine(OriginalLine(k)) }
    IN  IF ms = {} THEN 0 ELSE CHOOSE k \in ms : \A m \in ms : m <= k

\* the names a loop is checked against are its own: no more of them than
\* lines opening with "_" since the loop's marker
OwnNamesOnly ==
    pc \in {"get_loop_data_names", "validate_loop"} =>
        Len(loop_data_names) <=
            Cardinality({ k \in (LoopMarkerBefore(line_number) + 1)..(line_number - 1) :
                              /\ FirstNonSpace(OriginalLine(k)) # 0
                              /\ OriginalLine(k)[FirstNonSpace(OriginalLine(k))] = "_" })

\* C27: the line that ends the rows of a loop (a loop marker, a block
\* heading, a data-name line) is not consumed by the loop: when the loop
\* exits, that same line is the next one dispatched at top level; so a loop
\* straight after a loop starts its own list of names and is checked against
\* it, and an error raised at top level names the line it was dispatched on.
C27_LoopEndLineRedispatched ==
    /\ [][/\ (pc = "validate_loop" /\ EndsRows(current_line)) =>
                 /\ pc' = "validate"
                 /\ line_number' = line_number
                 /\ current_line' = current_line
                 /\ result' = Running
          /\ (pc = "validate" /\ LoopMarkerLine(current_line)) =>
                 /\ loop_data_names' = <<>>
                 /\ line_number = LineCount \/ pc' = "get_loop_data_names"
          /\ (pc = "validate" /\ result'.kind = "raise") =>
                 \E message \in Messages :
                     Raises(message, line_number, current_line)]_vars
    /\ []OwnNamesOnly

\* the items parse() left for the b-th block of the input, none when it
\* made no such block
BlockItems(b) == IF b <= Len(data_blocks) THEN data_blocks[b].data_items ELSE <<>>

\* line i of the block lines ls stands at top level for sure: it is the
\* first line of the block or follows an inline item
TopLevelLine(ls, i) == i = 1 \/ (i > 1 /\ InlineItemLine(ls[i - 1]))

\* every inline item and every closed semicolon field at top level of ls is
\* a scalar of items under its data name
ScalarsStored(items, ls) ==
    \A i \in 1..Len(ls) :
        ( /\ TopLevelLine(ls, i)
          /\ \/ InlineItemLine(ls[i])
             \/ FieldAt(ls, i) /\ FieldClose(ls, i) <= Len(ls) ) =>
            HasKey(items, NameOf(ls[i]), "str")

\* the k-th loop of ls has its table in items, with a column for every
\* declared name and a cell in every column for every row
LoopKept(items, ls, p, k) ==
    /\ HasKey(items, LoopKey(k), "dict")
    /\ \A j \in 1..Len(DeclaredNames(ls, p)) :
           /\ HasKey(ValueAt(items, LoopKey(k)), DeclaredNames(ls, p)[j], "list")
           /\ Len(ValueAt(ValueAt(items, LoopKey(k)), DeclaredNames(ls, p)[j]))
                  >= Len(ValueRows(ls, p))

LoopsKept(items, ls, loops) ==
    \A k \in 1..Len(loops) : LoopKept(items, ls, loops[k], k)

\* C28: validate() and the extractor accept the same grammar: once an
\* accepted input is parsed, every top-level item (each inline item, each
\* semicolon field, whatever follows its opening ";" and however many
\* content lines it has) is a key of the items of its block, and every loop
\* has its declared names and rows in its table; nothing accepted is dropped.
C28_AcceptedItemsStored ==
    Parsed =>
        \A b \in 1..Len(PositionsOf(TextLines, HeadingMarkerLine)) :
            /\ ScalarsStored(BlockItems(b), BlockLines(b))
            /\ LoopsKept(BlockItems(b), BlockLines(b),
                         PositionsOf(BlockLines(b), LoopMarkerLine))

\* the matches that bear this data name, in the order found
MatchesOf(matches, name) == SelectSeq(matches, LAMBDA m : m.name = name)

\* the value a pass stores for a match: a text field goes between quotes
StoredValue(pattern, m) ==
    IF pattern = "SEMICOLON_DATA_ITEM" THEN <<"'">> \o m.value \o <<"'">>
    ELSE m.value

\* how many entries items holds under key
EntriesOf(items, key) == Cardinality({ i \in 1..Len(items) : items[i].key = key })

\* after a pass that found these matches, every name it found has one entry,
\* holding the value of the last match of that name, and every other entry
\* is as it was
LastWriteWins(pattern, before, after, matches) ==
    /\ KeysOf(after) = KeysOf(before) \cup { matches[i].name : i \in 1..Len(matches) }
    /\ \A key \in KeysOf(after) :
           /\ EntriesOf(after, key) = 1
           /\ ValueAt(after, key) =
                  IF MatchesOf(matches, key) = <<>> THEN ValueAt(before, key)
                  ELSE StoredValue(pattern,
                           MatchesOf(matches, key)[Len(MatchesOf(matches, key))])

\* C29: repeated data names follow a last-write-wins policy: a name
\* extracted more than once in a block has one entry in items, with the
\* value written last: that of the later occurrence within a pass, and the
\* inline pass's over the semicolon pass's; an earlier value is never kept
\* in preference to a later one.
C29_LastWriteWins ==
    [][(parser_pc \in {"SEMICOLON_DATA_ITEM", "INLINE_DATA_ITEM"}) =>
           LastWriteWins(parser_pc, data_blocks[block_index].data_items,
                         data_blocks'[block_index].data_items,
                         FindIter(parser_pc, data_blocks[block_index].raw_data, 1))]_vars

\* a block with a text field and two inline items of the same name has been
\* parsed: the value of the second inline item is the one left
C29_Witness ==
    /\ Parsed
    /\ lines = <<HeadingLine, NameLine, SemicolonLine, TwoValues, SemicolonLine,
                 InlineLine, InlineOther>>
    /\ data_blocks[1].data_items = <<[key |-> <<"a">>, kind |-> "str", value |-> <<"c">>]>>


(***************************************************************************)
(* C30: validate() is repeatable on one CIFValidator instance.             *)
(***************************************************************************)

\* a call of validate() on an instance that was validated before has ended
ValidatedAgain == pc = "done" /\ earlier_calls.validate # <<>>

\* the outcome of the first call of validate() on the instance
FirstOutcome == earlier_calls.validate[1]

\* C30: a second call of validate() on the same CIFValidator ends as the
\* first did: True again after True, the same error (message, line number
\* and line text) after an error; in particular it never returns True for an
\* input the first call rejected
C30_ValidateRepeatable ==
    ValidatedAgain =>
        /\ result = FirstOutcome
        /\ FirstOutcome.kind = "raise" => result.kind = "raise"

====
